---- MODULE Spec2Model ----
(***************************************************************************)
(* The SSDP message layer of ssdp-rs:                                      *)
(*   - message/mod.rs   : Config, the IPv4/IPv6 scope tests, and the       *)
(*                        fan-out over the local addresses (map_local,     *)
(*                        all_local_connectors);                           *)
(*   - message/search.rs: SearchRequest::unicast / multicast and the       *)
(*                        FromRawSSDP wrappers of SearchRequest and        *)
(*                        SearchResponse.                                  *)
(* SSDPMessage::raw_ssdp (message/ssdp.rs) and the pull loop of the        *)
(* receiver (receiver.rs) follow the design document, sections 4.1 and     *)
(* 4.5.                                                                    *)
(***************************************************************************)
EXTENDS Integers, Sequences, FiniteSets, TLC

VARIABLES
    \* ---- message/mod.rs: all_local_connectors / map_local ----
    filter,         \* the IpVersionMode passed to all_local_connectors
    multicast_ttl,  \* the Option<u32> passed to all_local_connectors
    addrs_iter,     \* the Vec<SocketAddr> get_local_addrs returned
    idx,            \* position of the for loop of map_local in addrs_iter
    obj_list,       \* the Vec<UdpConnector> under construction
    lc_pc,          \* "idle" | "enum" | "loop" | "done"
    lc_result,      \* the io::Result all_local_connectors returned
    invoked,        \* history: positions for which map_local called f
    attempted,      \* history: positions for which UdpConnector::new ran
    failed_at,      \* history: position whose UdpConnector::new failed, or 0
    \* ---- message/search.rs: SearchRequest ----
    request,        \* the headers of the SearchRequest
    call,           \* the last unicast / multicast call and its outcome
    \* ---- message/search.rs: FromRawSSDP, and the receiver ----
    parsed,         \* the last raw_ssdp call: wrapper, bytes, result
    rx_state,       \* "Active" | "Exhausted"
    rx_socket,      \* datagrams waiting in the socket, oldest first
    rx_received,    \* history: datagrams the receiver has read, in order
    rx_yielded,     \* what the receiver has yielded to its caller, in order
    \* ---- message/mod.rs: Config ----
    config,         \* the Config value threaded through the builder calls
    last_set        \* history: per field, the argument of the latest setter

localVars  == <<filter, multicast_ttl, addrs_iter, idx, obj_list, lc_pc,
                lc_result, invoked, attempted, failed_at>>
searchVars == <<request, call>>
rawVars    == <<parsed>>
rxVars     == <<rx_state, rx_socket, rx_received, rx_yielded>>
configVars == <<config, last_set>>
vars       == <<localVars, searchVars, rawVars, rxVars, configVars>>

\* the components share no state: what the actions of one leave alone
notLocal  == <<searchVars, rawVars, rxVars, configVars>>
notSearch == <<localVars, rawVars, rxVars, configVars>>
notRaw    == <<localVars, searchVars, rxVars, configVars>>
notRx     == <<localVars, searchVars, rawVars, configVars>>
notConfig == <<localVars, searchVars, rawVars, rxVars>>

\* Option<T>: None is the empty sequence, Some(x) the sequence of x
None == <<>>
Some(x) == <<x>>
unwrap(o) == o[1]

(***************************************************************************)
(* Bounds of the model.                                                    *)
(***************************************************************************)
\* longest list of local addresses the operating system returns
MaxAddrs == 3
\* number of datagrams that arrive at a receiver
MaxDatagrams == 3

BoundedSeq(S, n) == UNION {[1..k -> S] : k \in 0..n}

(***************************************************************************)
(* Fixed-width integer helpers.                                            *)
(***************************************************************************)
RECURSIVE BitAnd(_, _)
BitAnd(a, b) ==
    IF a = 0 \/ b = 0 THEN 0
    ELSE (a % 2) * (b % 2) + 2 * BitAnd(a \div 2, b \div 2)

\* `!x` on a u16 is the bitwise complement
NotU16(x) == 65535 - x

(***************************************************************************)
(* Addresses.  An IPv4 address is its four octets, an IPv6 address its     *)
(* eight 16-bit segments.                                                  *)
(***************************************************************************)
V4(a, b, c, d) == [fam |-> 4, segs |-> <<a, b, c, d>>]
V6(a, b, c, d, e, f, g, h) == [fam |-> 6, segs |-> <<a, b, c, d, e, f, g, h>>]

octets(ip) == ip.segs
segments(ip) == ip.segs
\* u32::from(ip) == 0xAABBCCDD, as a comparison of the four big-endian bytes
u32_is(ip, a, b, c, d) == octets(ip) = <<a, b, c, d>>

\* std::net::Ipv4Addr
v4_is_loopback(ip)   == octets(ip)[1] = 127
v4_is_private(ip)    ==
    \/ octets(ip)[1] = 10
    \/ octets(ip)[1] = 172 /\ octets(ip)[2] >= 16 /\ octets(ip)[2] <= 31
    \/ octets(ip)[1] = 192 /\ octets(ip)[2] = 168
v4_is_link_local(ip) == octets(ip)[1] = 169 /\ octets(ip)[2] = 254
v4_is_broadcast(ip)  == octets(ip) = <<255, 255, 255, 255>>
v4_is_documentation(ip) ==
    \/ octets(ip)[1] = 192 /\ octets(ip)[2] = 0 /\ octets(ip)[3] = 2
    \/ octets(ip)[1] = 198 /\ octets(ip)[2] = 51 /\ octets(ip)[3] = 100
    \/ octets(ip)[1] = 203 /\ octets(ip)[2] = 0 /\ octets(ip)[3] = 113

\* std::net::Ipv6Addr
v6_is_loopback(ip)    == segments(ip) = <<0, 0, 0, 0, 0, 0, 0, 1>>
v6_is_unspecified(ip) == segments(ip) = <<0, 0, 0, 0, 0, 0, 0, 0>>
v6_is_multicast(ip)   == BitAnd(segments(ip)[1], 65280) = 65280

\* impl IpProperties for Ipv4Addr
v4_is_global_addr(ip) ==
    IF u32_is(ip, 192, 0, 0, 9) \/ u32_is(ip, 192, 0, 0, 10)
    THEN TRUE
    ELSE /\ ~v4_is_private(ip)
         /\ ~v4_is_loopback(ip)
         /\ ~v4_is_link_local(ip)
         /\ ~v4_is_broadcast(ip)
         /\ ~v4_is_documentation(ip)
         /\ octets(ip)[1] # 0

\* The scope test as the design intends it: not multicast, loopback,
\* unspecified, FE80::/10, FEC0::/10, FC00::/7 or 2001:DB8::/32.
v6_is_global_addr_by_scope(ip) ==
    /\ ~v6_is_multicast(ip)
    /\ ~v6_is_loopback(ip)
    /\ BitAnd(segments(ip)[1], 65472) # 65152
    /\ BitAnd(segments(ip)[1], 65472) # 65216
    /\ BitAnd(segments(ip)[1], 65024) # 64512
    /\ ~v6_is_unspecified(ip)
    /\ ~(segments(ip)[1] = 8193 /\ segments(ip)[2] = 3512)

\* impl IpProperties for Ipv6Addr.  In `!(s & 0xffc0) == 0xfe80` the `!`
\* binds to the parenthesis: it is the bitwise complement of a u16, which is
\* then compared with the constant.
v6_is_global_addr(ip) ==
    /\ ~v6_is_multicast(ip)
    /\ ~v6_is_loopback(ip)
    /\ NotU16(BitAnd(segments(ip)[1], 65472)) = 65152
    /\ NotU16(BitAnd(segments(ip)[1], 65472)) = 65216
    /\ NotU16(BitAnd(segments(ip)[1], 65024)) = 64512
    /\ ~v6_is_unspecified(ip)
    /\ ~(segments(ip)[1] = 8193 /\ segments(ip)[2] = 3512)

\* The local addresses an interface listing is drawn from.
AddrPool ==
    { V4(127, 0, 0, 1),                       \* loopback
      V4(192, 168, 1, 10),                    \* private
      V4(8, 8, 8, 8),                         \* global
      V6(0, 0, 0, 0, 0, 0, 0, 1),             \* ::1, loopback
      V6(0, 0, 0, 0, 0, 0, 0, 0),             \* ::, unspecified
      V6(65152, 0, 0, 0, 0, 0, 0, 1),         \* fe80::1, link-local
      V6(65216, 0, 0, 0, 0, 0, 0, 1),         \* fec0::1, site-local
      V6(64768, 0, 0, 0, 0, 0, 0, 1),         \* fd00::1, unique-local
      V6(8193, 3512, 0, 0, 0, 0, 0, 1),       \* 2001:db8::1, documentation
      V6(8193, 18528, 18528, 0, 0, 0, 0, 34952), \* 2001:4860:4860::8888, global
      V6(65282, 0, 0, 0, 0, 0, 0, 12) }       \* ff02::c, multicast

IpVersionMode == {"V4Only", "V6Only", "Any"}

(***************************************************************************)
(* message/mod.rs: constants and Config.                                   *)
(***************************************************************************)
UPNP_MULTICAST_IPV4_ADDR == "239.255.255.250"
UPNP_MULTICAST_IPV6_LINK_LOCAL_ADDR == "FF02::C"
UPNP_MULTICAST_PORT == 1900
UPNP_MULTICAST_TTL == 2

(***************************************************************************)
(* message/mod.rs: the fan-out over the local addresses.                   *)
(***************************************************************************)
Ok(v)  == [ok |-> TRUE, val |-> v]
Err(e) == [ok |-> FALSE, err |-> e]

\* The guards of the two match arms in the for loop of map_local.
map_local_guard_v6_loopback_passes(addr) ==
    IF addr.fam = 4
    THEN ~v4_is_loopback(addr)
    ELSE ~v6_is_global_addr(addr)

map_local_guard_v4_loopback_passes(addr) ==
    IF addr.fam = 4
    THEN TRUE
    ELSE ~v6_is_loopback(addr) /\ ~v6_is_global_addr(addr)

map_local_guard(addr) ==
    IF addr.fam = 4
    THEN ~v4_is_loopback(addr)
    ELSE ~v6_is_loopback(addr) /\ ~v6_is_global_addr(addr)

\* The closure all_local_connectors hands to map_local: which arm of
\* `match (filter, addr)` is taken.  "new" calls UdpConnector::new, "none"
\* is the `_ => Ok(None)` arm.
closure_arm(mode, addr) ==
    IF mode \in {"V4Only", "Any"} /\ addr.fam = 4 THEN "new"
    ELSE IF mode \in {"V6Only", "Any"} /\ addr.fam = 6 THEN "new"
    ELSE "none"

\* UdpConnector::new((ip, 0), multicast_ttl), when it succeeds
UdpConnector(addr, ttl) == [addr |-> addr, port |-> 0, ttl |-> ttl]

\* all_local_connectors(multicast_ttl, filter) is entered
all_local_connectors(ttl, mode) ==
    /\ lc_pc = "idle"
    /\ lc_pc' = "enum"
    /\ multicast_ttl' = ttl
    /\ filter' = mode
    /\ UNCHANGED <<addrs_iter, idx, obj_list, lc_result, invoked, attempted,
                   failed_at>>
    /\ UNCHANGED notLocal

\* try!(get_local_addrs()): the interface listing succeeds
get_local_addrs_ok ==
    /\ lc_pc = "enum"
    /\ lc_pc' = "loop"
    /\ addrs_iter' \in BoundedSeq(AddrPool, MaxAddrs)
    /\ idx' = 1
    /\ obj_list' = <<>>
    /\ UNCHANGED <<filter, multicast_ttl, lc_result, invoked, attempted,
                   failed_at>>
    /\ UNCHANGED notLocal

\* try!(get_local_addrs()): get_if_addrs fails, the error is returned
get_local_addrs_err ==
    /\ lc_pc = "enum"
    /\ lc_pc' = "done"
    /\ lc_result' = Some(Err("get_if_addrs"))
    /\ UNCHANGED <<filter, multicast_ttl, addrs_iter, idx, obj_list, invoked,
                   attempted, failed_at>>
    /\ UNCHANGED notLocal

\* one iteration of the for loop: the `_ => ()` arm
map_local_skip ==
    /\ lc_pc = "loop"
    /\ idx <= Len(addrs_iter)
    /\ ~map_local_guard(addrs_iter[idx])
    /\ idx' = idx + 1
    /\ UNCHANGED <<filter, multicast_ttl, addrs_iter, obj_list, lc_pc,
                   lc_result, invoked, attempted, failed_at>>
    /\ UNCHANGED notLocal

\* one iteration: f is called and returns Ok(None)
map_local_none ==
    /\ lc_pc = "loop"
    /\ idx <= Len(addrs_iter)
    /\ map_local_guard(addrs_iter[idx])
    /\ closure_arm(filter, addrs_iter[idx]) = "none"
    /\ invoked' = invoked \cup {idx}
    /\ idx' = idx + 1
    /\ UNCHANGED <<filter, multicast_ttl, addrs_iter, obj_list, lc_pc,
                   lc_result, attempted, failed_at>>
    /\ UNCHANGED notLocal

\* one iteration: f is called, UdpConnector::new succeeds, Ok(Some(x)) is
\* pushed
map_local_push ==
    /\ lc_pc = "loop"
    /\ idx <= Len(addrs_iter)
    /\ map_local_guard(addrs_iter[idx])
    /\ closure_arm(filter, addrs_iter[idx]) = "new"
    /\ invoked' = invoked \cup {idx}
    /\ attempted' = attempted \cup {idx}
    /\ obj_list' = Append(obj_list, UdpConnector(addrs_iter[idx], multicast_ttl))
    /\ idx' = idx + 1
    /\ UNCHANGED <<filter, multicast_ttl, addrs_iter, lc_pc, lc_result,
                   failed_at>>
    /\ UNCHANGED notLocal

\* one iteration: f is called, UdpConnector::new fails; try! inside the
\* closure and try!(f(&addr)) in map_local return the error at once, and
\* the connectors built so far are dropped with obj_list
map_local_fail ==
    /\ lc_pc = "loop"
    /\ idx <= Len(addrs_iter)
    /\ map_local_guard(addrs_iter[idx])
    /\ closure_arm(filter, addrs_iter[idx]) = "new"
    /\ invoked' = invoked \cup {idx}
    /\ attempted' = attempted \cup {idx}
    /\ failed_at' = idx
    /\ obj_list' = <<>>
    /\ lc_pc' = "done"
    /\ lc_result' = Some(Err("UdpConnector::new"))
    /\ UNCHANGED <<filter, multicast_ttl, addrs_iter, idx>>
    /\ UNCHANGED notLocal

\* the loop is over: Ok(obj_list)
map_local_return ==
    /\ lc_pc = "loop"
    /\ idx > Len(addrs_iter)
    /\ lc_pc' = "done"
    /\ lc_result' = Some(Ok(obj_list))
    /\ UNCHANGED <<filter, multicast_ttl, addrs_iter, idx, obj_list, invoked,
                   attempted, failed_at>>
    /\ UNCHANGED notLocal

InitLocal ==
    /\ filter = "Any"
    /\ multicast_ttl = None
    /\ addrs_iter = <<>>
    /\ idx = 0
    /\ obj_list = <<>>
    /\ lc_pc = "idle"
    /\ lc_result = None
    /\ invoked = {}
    /\ attempted = {}
    /\ failed_at = 0

NextLocal ==
    \/ \E ttl \in {None, Some(UPNP_MULTICAST_TTL)}, mode \in IpVersionMode :
          all_local_connectors(ttl, mode)
    \/ get_local_addrs_ok
    \/ get_local_addrs_err
    \/ map_local_skip
    \/ map_local_none
    \/ map_local_push
    \/ map_local_fail
    \/ map_local_return

(***************************************************************************)
(* message/search.rs: SearchRequest.                                       *)
(***************************************************************************)
DEFAULT_UNICAST_TIMEOUT == 2

\* MX carries a u8
U8Max == 255
MXValues == 0..U8Max
STValues == {"ssdp:all", "upnp:rootdevice"}
LocalAddrs == {"0.0.0.0:0", "192.168.1.10:0"}
DstAddrs == {"192.168.1.1:1900", "239.255.255.250:1900"}

\* SearchRequest::new(): a Search message without headers
SearchRequest_new == [mx |-> None, man |-> FALSE, st |-> None]

\* HeaderMut::set::<MX>, ::<Man>, ::<ST>
set_MX(n) ==
    /\ call = None
    /\ request' = [request EXCEPT !.mx = Some(n)]
    /\ UNCHANGED call
    /\ UNCHANGED notSearch

set_Man ==
    /\ call = None
    /\ request' = [request EXCEPT !.man = TRUE]
    /\ UNCHANGED call
    /\ UNCHANGED notSearch

set_ST(v) ==
    /\ call = None
    /\ request' = [request EXCEPT !.st = Some(v)]
    /\ UNCHANGED call
    /\ UNCHANGED notSearch

\* `match self.get::<MX>() { Some(&MX(n)) => n, None => DEFAULT }` read as
\* if MX(0) meant "no MX"
unicast_timeout_zero_is_default(req) ==
    IF req.mx # None /\ unwrap(req.mx) # 0 THEN unwrap(req.mx) ELSE DEFAULT_UNICAST_TIMEOUT

\* the timeout computed by unicast, in seconds
unicast_timeout(req) ==
    IF req.mx # None THEN unwrap(req.mx) ELSE DEFAULT_UNICAST_TIMEOUT

\* unicast: try!(self.message.send(..)) fails
unicast_send_err(local_addr, dst_addr) ==
    /\ call = None
    /\ call' = Some([op |-> "unicast", local_addr |-> local_addr,
                     dst_addr |-> dst_addr, outcome |-> "Err(send)",
                     timeout |-> None])
    /\ UNCHANGED request
    /\ UNCHANGED notSearch

\* unicast: the send succeeds and SSDPReceiver::new(sock, Some(timeout)) is
\* called; its own result is Ok or is mapped to SSDPError::Other
unicast_send_ok(local_addr, dst_addr, receiver_ok) ==
    /\ call = None
    /\ call' = Some([op |-> "unicast", local_addr |-> local_addr,
                     dst_addr |-> dst_addr,
                     outcome |-> IF receiver_ok THEN "Ok(receiver)"
                                 ELSE "Err(Other)",
                     timeout |-> Some(unicast_timeout(request))])
    /\ UNCHANGED request
    /\ UNCHANGED notSearch

\* multicast: panic!("Unimplemented")
multicast(local_addr) ==
    /\ call = None
    /\ call' = Some([op |-> "multicast", local_addr |-> local_addr,
                     dst_addr |-> "", outcome |-> "panic",
                     timeout |-> None])
    /\ UNCHANGED request
    /\ UNCHANGED notSearch

\* the caller is done with the outcome of the call
call_done ==
    /\ call # None
    /\ call' = None
    /\ UNCHANGED request
    /\ UNCHANGED notSearch

InitSearch ==
    /\ request = SearchRequest_new
    /\ call = None

NextSearch ==
    \/ \E n \in MXValues : set_MX(n)
    \/ set_Man
    \/ \E v \in STValues : set_ST(v)
    \/ \E l \in LocalAddrs, d \in DstAddrs : unicast_send_err(l, d)
    \/ \E l \in LocalAddrs, d \in DstAddrs, r \in BOOLEAN :
          unicast_send_ok(l, d, r)
    \/ \E l \in LocalAddrs : multicast(l)
    \/ call_done

(***************************************************************************)
(* Datagrams and SSDPMessage::raw_ssdp (design document, section 4.1).     *)
(* A datagram is its start-line (split at spaces), its header lines and    *)
(* whether the terminating empty line is there.                            *)
(***************************************************************************)
StartLines ==
    { <<"M-SEARCH", "*", "HTTP/1.1">>,
      <<"NOTIFY", "*", "HTTP/1.1">>,
      <<"HTTP/1.1", "200", "OK">>,
      <<"HTTP/1.1", "404", "Not Found">>,
      <<"GET", "/", "HTTP/1.1">>,
      <<"M-SEARCH", "*">>,
      <<>> }

\* a header line: `name: value`, or a line without a colon
HeaderLines ==
    { [name |-> "MX", value |-> "5", colon |-> TRUE],
      [name |-> "ST", value |-> "ssdp:all", colon |-> TRUE],
      [name |-> "garbage", value |-> "", colon |-> FALSE] }

Datagrams ==
    [start : StartLines, lines : BoundedSeq(HeaderLines, 2), end : BOOLEAN]

\* the start-line patterns
start_line_type(start) ==
    IF start = <<"M-SEARCH", "*", "HTTP/1.1">> THEN "Search"
    ELSE IF start = <<"NOTIFY", "*", "HTTP/1.1">> THEN "Notify"
    ELSE IF Len(start) >= 3 /\ start[1] = "HTTP/1.1" THEN "Response"
    ELSE "none"

\* SSDPMessage::raw_ssdp(bytes)
SSDPMessage_raw_ssdp(bytes) ==
    IF /\ start_line_type(bytes.start) # "none"
       /\ \A i \in 1..Len(bytes.lines) : bytes.lines[i].colon
       /\ bytes.end
    THEN Ok([message_type |-> start_line_type(bytes.start),
             headers |-> [i \in 1..Len(bytes.lines) |->
                            <<bytes.lines[i].name, bytes.lines[i].value>>]])
    ELSE Err("ParseError")

(***************************************************************************)
(* message/search.rs: impl FromRawSSDP for SearchRequest / SearchResponse. *)
(***************************************************************************)
NotASearchRequest  == "SSDP Message Received Is Not A SearchRequest"
NotASearchResponse == "SSDP Message Received Is Not A SearchResponse"

\* the check of the message type left out
SearchResponse_raw_ssdp_unchecked(bytes) ==
    SSDPMessage_raw_ssdp(bytes)

SearchRequest_raw_ssdp(bytes) ==
    LET message == SSDPMessage_raw_ssdp(bytes) IN
    IF ~message.ok THEN message
    ELSE IF message.val.message_type # "Search"
         THEN Err(NotASearchRequest)
         ELSE Ok(message.val)

\* the check copied from SearchRequest with the type left as it was
SearchResponse_raw_ssdp_search(bytes) ==
    LET message == SSDPMessage_raw_ssdp(bytes) IN
    IF ~message.ok THEN message
    ELSE IF message.val.message_type # "Search"
         THEN Err(NotASearchResponse)
         ELSE Ok(message.val)

SearchResponse_raw_ssdp(bytes) ==
    LET message == SSDPMessage_raw_ssdp(bytes) IN
    IF ~message.ok THEN message
    ELSE IF message.val.message_type # "Response"
         THEN Err(NotASearchResponse)
         ELSE Ok(message.val)

\* a caller interprets one datagram as a SearchRequest
raw_ssdp_SearchRequest(bytes) ==
    /\ parsed' = Some([wrapper |-> "SearchRequest", bytes |-> bytes,
                       result |-> SearchRequest_raw_ssdp(bytes)])
    /\ UNCHANGED notRaw

\* a caller interprets one datagram as a SearchResponse
raw_ssdp_SearchResponse(bytes) ==
    /\ parsed' = Some([wrapper |-> "SearchResponse", bytes |-> bytes,
                       result |-> SearchResponse_raw_ssdp(bytes)])
    /\ UNCHANGED notRaw

InitRaw == parsed = None

NextRaw ==
    \/ \E b \in Datagrams : raw_ssdp_SearchRequest(b)
    \/ \E b \in Datagrams : raw_ssdp_SearchResponse(b)

(***************************************************************************)
(* The receiver of SearchResponse items (design document, section 4.5):    *)
(* each datagram read is handed to SearchResponse::raw_ssdp; on success    *)
(* the item is emitted, on failure the datagram is dropped and the loop    *)
(* goes on.  The deadline ends the iteration.                              *)
(***************************************************************************)
MXLine == [name |-> "MX", value |-> "5", colon |-> TRUE]
BadLine == [name |-> "garbage", value |-> "", colon |-> FALSE]

\* the traffic of a shared multicast group
RxDatagrams ==
    { [start |-> <<"HTTP/1.1", "200", "OK">>, lines |-> <<MXLine>>, end |-> TRUE],
      [start |-> <<"HTTP/1.1", "404", "Not Found">>, lines |-> <<>>, end |-> TRUE],
      [start |-> <<"NOTIFY", "*", "HTTP/1.1">>, lines |-> <<MXLine>>, end |-> TRUE],
      [start |-> <<"M-SEARCH", "*", "HTTP/1.1">>, lines |-> <<>>, end |-> TRUE],
      [start |-> <<"HTTP/1.1", "200", "OK">>, lines |-> <<BadLine>>, end |-> TRUE],
      [start |-> <<"HTTP/1.1", "200", "OK">>, lines |-> <<MXLine>>, end |-> FALSE],
      [start |-> <<"M-SEARCH", "*">>, lines |-> <<>>, end |-> FALSE],
      [start |-> <<>>, lines |-> <<>>, end |-> FALSE] }

\* a datagram reaches the socket
datagram_arrives(d) ==
    /\ rx_state = "Active"
    /\ Len(rx_received) + Len(rx_socket) < MaxDatagrams
    /\ rx_socket' = Append(rx_socket, d)
    /\ UNCHANGED <<rx_state, rx_received, rx_yielded>>
    /\ UNCHANGED notRx

\* one pull iteration: read a datagram, parse it as the item type, emit the
\* item or drop the datagram
receiver_pull ==
    /\ rx_state = "Active"
    /\ rx_socket # <<>>
    /\ LET bytes == Head(rx_socket)
           item  == SearchResponse_raw_ssdp(bytes)
       IN  /\ rx_socket' = Tail(rx_socket)
           /\ rx_received' = Append(rx_received, bytes)
           /\ rx_yielded' = IF item.ok THEN Append(rx_yielded, item.val)
                            ELSE rx_yielded
    /\ UNCHANGED rx_state
    /\ UNCHANGED notRx

\* the deadline elapses: Exhausted is terminal
receiver_deadline ==
    /\ rx_state = "Active"
    /\ rx_state' = "Exhausted"
    /\ UNCHANGED <<rx_socket, rx_received, rx_yielded>>
    /\ UNCHANGED notRx

InitRx ==
    /\ rx_state = "Active"
    /\ rx_socket = <<>>
    /\ rx_received = <<>>
    /\ rx_yielded = <<>>

NextRx ==
    \/ \E d \in RxDatagrams : datagram_arrives(d)
    \/ receiver_pull
    \/ receiver_deadline

(***************************************************************************)
(* message/mod.rs: Config and its builder.                                 *)
(***************************************************************************)
Ipv4Args == {UPNP_MULTICAST_IPV4_ADDR, "239.0.0.1"}
Ipv6Args == {UPNP_MULTICAST_IPV6_LINK_LOCAL_ADDR, "FF05::C"}
PortArgs == {UPNP_MULTICAST_PORT, 0, 65535}
TtlArgs  == {UPNP_MULTICAST_TTL, 0, 255}

\* impl Default for Config
Config_default ==
    [ipv4_addr |-> UPNP_MULTICAST_IPV4_ADDR,
     ipv6_addr |-> UPNP_MULTICAST_IPV6_LINK_LOCAL_ADDR,
     port      |-> UPNP_MULTICAST_PORT,
     ttl       |-> UPNP_MULTICAST_TTL,
     mode      |-> "Any"]

\* Config::new()
Config_new == Config_default

set_ipv4_addr(value) ==
    /\ config' = [config EXCEPT !.ipv4_addr = value]
    /\ last_set' = [last_set EXCEPT !.ipv4_addr = Some(value)]
    /\ UNCHANGED notConfig

set_ipv6_addr(value) ==
    /\ config' = [config EXCEPT !.ipv6_addr = value]
    /\ last_set' = [last_set EXCEPT !.ipv6_addr = Some(value)]
    /\ UNCHANGED notConfig

\* a setter that writes the neighbouring numeric field as well
set_port_and_ttl(value) ==
    /\ config' = [config EXCEPT !.port = value, !.ttl = value]
    /\ last_set' = [last_set EXCEPT !.port = Some(value)]
    /\ UNCHANGED notConfig

set_port(value) ==
    /\ config' = [config EXCEPT !.port = value]
    /\ last_set' = [last_set EXCEPT !.port = Some(value)]
    /\ UNCHANGED notConfig

set_ttl(value) ==
    /\ config' = [config EXCEPT !.ttl = value]
    /\ last_set' = [last_set EXCEPT !.ttl = Some(value)]
    /\ UNCHANGED notConfig

set_mode(value) ==
    /\ config' = [config EXCEPT !.mode = value]
    /\ last_set' = [last_set EXCEPT !.mode = Some(value)]
    /\ UNCHANGED notConfig

InitConfig ==
    /\ config = Config_new
    /\ last_set = [ipv4_addr |-> None, ipv6_addr |-> None, port |-> None,
                   ttl |-> None, mode |-> None]

NextConfig ==
    \/ \E v \in Ipv4Args : set_ipv4_addr(v)
    \/ \E v \in Ipv6Args : set_ipv6_addr(v)
    \/ \E v \in PortArgs : set_port(v)
    \/ \E v \in TtlArgs : set_ttl(v)
    \/ \E v \in IpVersionMode : set_mode(v)

(***************************************************************************)
(* Specifications: one per component; the components share no state.       *)
(***************************************************************************)
Init == InitLocal /\ InitSearch /\ InitRaw /\ InitRx /\ InitConfig

SpecLocal  == Init /\ [][NextLocal]_vars
SpecSearch == Init /\ [][NextSearch]_vars
SpecRaw    == Init /\ [][NextRaw]_vars
SpecRx     == Init /\ [][NextRx]_vars
SpecConfig == Init /\ [][NextConfig]_vars

(***************************************************************************)
(* Properties.                                                             *)
(***************************************************************************)
Positions == 1..Len(addrs_iter)

\* the connectors all_local_connectors handed back to its caller
Returned ==
    IF lc_result # None /\ unwrap(lc_result).ok THEN unwrap(lc_result).val
    ELSE <<>>

HasConnector(list, addr) == \E k \in 1..Len(list) : list[k].addr = addr

\* the positions the for loop of map_local has handled so far
Handled(i) == i < idx \/ i = failed_at

IsLoopback(a) ==
    \/ a.fam = 4 /\ a.segs[1] = 127
    \/ a.fam = 6 /\ a.segs = <<0, 0, 0, 0, 0, 0, 0, 1>>

\* FE80::/10
IsLinkLocalV6(a) == a.fam = 6 /\ BitAnd(a.segs[1], 65472) = 65152

\* C1: when the send of unicast succeeds, the timeout handed to the Receiver
\* is n seconds for a request carrying MX(n), MX(0) included, and 2 seconds
\* for a request without MX, whatever the other headers and the addresses.
C1_UnicastTimeout ==
    (call # None /\ unwrap(call).op = "unicast"
                 /\ unwrap(call).outcome # "Err(send)")
    => unwrap(call).timeout =
          Some(IF request.mx = None THEN 2 ELSE unwrap(request.mx))

\* C1 witness: a unicast with MX(0), Man and ST set got its Receiver
C1_Witness ==
    /\ call # None
    /\ unwrap(call).op = "unicast"
    /\ unwrap(call).outcome = "Ok(receiver)"
    /\ request.mx = Some(0)
    /\ request.man
    /\ request.st # None

ExpectedType(wrapper) ==
    IF wrapper = "SearchRequest" THEN "Search" ELSE "Response"

MismatchError(wrapper) ==
    IF wrapper = "SearchRequest"
    THEN "SSDP Message Received Is Not A SearchRequest"
    ELSE "SSDP Message Received Is Not A SearchResponse"

\* C2: raw_ssdp of a wrapper fails with the kind-mismatch error, neither a
\* parse error nor a success, whenever the bytes are a valid SSDP message of
\* another MessageType; and whenever it succeeds the message has the type
\* the wrapper expects.
C2_KindMismatch ==
    parsed # None =>
        LET p == unwrap(parsed)
            m == SSDPMessage_raw_ssdp(p.bytes)
        IN  /\ (m.ok /\ m.val.message_type # ExpectedType(p.wrapper))
                  => /\ ~p.result.ok
                     /\ p.result.err = MismatchError(p.wrapper)
                     /\ p.result.err # "ParseError"
            /\ p.result.ok
                  => p.result.val.message_type = ExpectedType(p.wrapper)

\* C2 witness: a valid Notify datagram was interpreted as a SearchRequest
\* and rejected with the kind-mismatch error
C2_Witness ==
    /\ parsed # None
    /\ unwrap(parsed).wrapper = "SearchRequest"
    /\ unwrap(parsed).bytes.start = <<"NOTIFY", "*", "HTTP/1.1">>
    /\ SSDPMessage_raw_ssdp(unwrap(parsed).bytes).ok
    /\ ~unwrap(parsed).result.ok
    /\ unwrap(parsed).result.err = "SSDP Message Received Is Not A SearchRequest"

IsValidResponse(d) ==
    /\ SSDPMessage_raw_ssdp(d).ok
    /\ SSDPMessage_raw_ssdp(d).val.message_type = "Response"

ValidResponses(ds) ==
    LET sel == SelectSeq(ds, IsValidResponse)
    IN  [i \in 1..Len(sel) |-> SSDPMessage_raw_ssdp(sel[i]).val]

\* C3: what a receiver of SearchResponse has yielded is exactly the valid
\* Response messages among the datagrams it has read, in arrival order:
\* Notify, Search and malformed datagrams are dropped, yield nothing, and
\* the Responses read after them are yielded.
C3_YieldsExactlyResponses ==
    rx_yielded = ValidResponses(rx_received)

\* C3 witness: a malformed datagram, then a Notify, then a valid Response
\* were read, and the Response alone was yielded
C3_Witness ==
    /\ Len(rx_received) = 3
    /\ ~SSDPMessage_raw_ssdp(rx_received[1]).ok
    /\ SSDPMessage_raw_ssdp(rx_received[2]).ok
    /\ SSDPMessage_raw_ssdp(rx_received[2]).val.message_type = "Notify"
    /\ IsValidResponse(rx_received[3])
    /\ Len(rx_yielded) = 1

\* C4: all_local_connectors returns connectors only for the families the
\* mode selects (none for IPv6 under V4Only, none for IPv4 under V6Only), and
\* under Any every address that passes the loopback/global filter, and whose
\* own connector can be built, has a connector in the result.
C4_FamiliesSelected ==
    (lc_pc = "done" /\ lc_result # None) =>
        /\ filter = "V4Only" =>
              \A i \in Positions :
                  addrs_iter[i].fam = 6 =>
                      i \notin attempted /\ ~HasConnector(Returned, addrs_iter[i])
        /\ filter = "V6Only" =>
              \A i \in Positions :
                  addrs_iter[i].fam = 4 =>
                      i \notin attempted /\ ~HasConnector(Returned, addrs_iter[i])
        /\ filter = "Any" =>
              \A i \in Positions :
                  (map_local_guard(addrs_iter[i]) /\ i # failed_at)
                      => HasConnector(Returned, addrs_iter[i])

\* C5: when the construction of a connector fails for one address,
\* construction is still attempted for every other eligible address, and
\* the connectors built for them are returned.
C5_PartialFailure ==
    (lc_pc = "done" /\ failed_at # 0) =>
        \A i \in Positions :
            (/\ map_local_guard(addrs_iter[i])
             /\ closure_arm(filter, addrs_iter[i]) = "new"
             /\ i # failed_at)
                => /\ i \in attempted
                   /\ HasConnector(Returned, addrs_iter[i])

\* C6: for every IPv6 address of global scope (not multicast, loopback,
\* unspecified, FE80::/10, FEC0::/10, FC00::/7 or 2001:DB8::/32),
\* is_global_addr is true, map_local does not call f for it and nothing is
\* returned for it, in every mode.
C6_GlobalV6Excluded ==
    \A i \in Positions :
        (addrs_iter[i].fam = 6 /\ v6_is_global_addr_by_scope(addrs_iter[i]))
            => /\ v6_is_global_addr(addrs_iter[i])
               /\ i \notin invoked
               /\ ~HasConnector(obj_list, addrs_iter[i])
               /\ ~HasConnector(Returned, addrs_iter[i])

C8_LoopbackExcluded ==
    \A i \in Positions :
        IsLoopback(addrs_iter[i])
            => /\ i \notin invoked
               /\ i \notin attempted
               /\ ~HasConnector(obj_list, addrs_iter[i])
               /\ ~HasConnector(Returned, addrs_iter[i])

\* C8 witness: a list holding both loopback addresses and a link-local IPv6
\* address was handled to the end; f was called for the third address only
C8_Witness ==
    /\ lc_pc = "done"
    /\ addrs_iter = << V4(127, 0, 0, 1), V6(0, 0, 0, 0, 0, 0, 0, 1),
                       V6(65152, 0, 0, 0, 0, 0, 0, 1) >>
    /\ invoked = {3}
    /\ lc_result # None
    /\ unwrap(lc_result).ok

\* C9: multicast returns a Receiver whose deadline is derived as for unicast
\* (MX seconds if MX is set, else 2 seconds); it never aborts its caller.
C9_MulticastReturns ==
    (call # None /\ unwrap(call).op = "multicast")
    => /\ unwrap(call).outcome = "Ok(receiver)"
       /\ unwrap(call).timeout =
             Some(IF request.mx = None THEN 2 ELSE unwrap(request.mx))

ConfigFields == {"ipv4_addr", "ipv6_addr", "port", "ttl", "mode"}

\* C10: Config::new() is 239.255.255.250 / FF02::C / 1900 / ttl 2 / Any, and
\* after any sequence of setter calls each field is the argument of the
\* latest setter of that field, or its default if that setter never ran.
C10_ConfigFields ==
    LET dflt == [ipv4_addr |-> "239.255.255.250", ipv6_addr |-> "FF02::C",
                 port |-> 1900, ttl |-> 2, mode |-> "Any"]
    IN  \A f \in ConfigFields :
            config[f] = IF last_set[f] = None THEN dflt[f]
                        ELSE unwrap(last_set[f])

\* C10 witness: set_port and set_mode ran, the other three setters never
\* did, and the other three fields still hold their defaults
C10_Witness ==
    /\ last_set.port = Some(65535)
    /\ last_set.mode = Some("V6Only")
    /\ last_set.ipv4_addr = None
    /\ last_set.ipv6_addr = None
    /\ last_set.ttl = None
    /\ config.port = 65535
    /\ config.ttl = 2

====
